---- MODULE Spec2Model ----
(***************************************************************************)
(* Authentication core of the sample service: the bearer-token codec       *)
(* (auth_pkg/jwt.py), the API key registry (auth_pkg/api_keys.py), the     *)
(* require_auth guard (auth_pkg/decorators.py) and the routes that use     *)
(* them (app.py, app_asgi.py).  auth.py holds the same functions verbatim. *)
(***************************************************************************)
EXTENDS Integers, Sequences, FiniteSets, TLC

VARIABLES
    now,        \* datetime.utcnow(), in hours since process start
    issued,     \* tokens returned by create_jwt_token so far
    vr,         \* the last direct verify_jwt_token call and its result
    API_KEYS,   \* auth_pkg.api_keys.API_KEYS, the in-memory map
    db_pool,    \* auth_pkg.api_keys._db_pool is set (set_db_pool was called)
    app_db_pool,\* app_asgi.db_pool is set (initialize_db_pool succeeded)
    table,      \* rows of the api_keys relation of the durable store
    kr,         \* the last direct validate_api_key call and its result
    resp,       \* the last guarded request and the guard's answer
    checked_out,\* connections taken from the pool and not put back
    lr,         \* the last authenticate_user or login call and its answer
    clock,      \* time.time(), in seconds
    rate_limit_storage, \* decorators._rate_limit_storage: key -> timestamps
    inflight,   \* rate-limited requests being handled, with their locals
    served,     \* the rate-limited requests answered so far, in order
    redis_client,  \* app.redis_client is set (the ping at import succeeded)
    redis_db,      \* the keys of the Redis database: key -> value, expiry
    answered,      \* the requests to cached routes answered so far, in order
    flask_db_pool, \* app.db_pool / db_utils.db_pool is set
    pool_out,      \* connections taken from that pool and not put back
    dr          \* the last request to a database route and its answer

limiterVars == <<clock, rate_limit_storage, inflight, served>>
webVars == <<redis_client, redis_db, answered, flask_db_pool, pool_out, dr>>
vars == <<now, issued, vr, API_KEYS, db_pool, app_db_pool, table, kr, resp,
          checked_out, lr, limiterVars, webVars>>

(***************************************************************************)
(* Bounds of the model.                                                    *)
(***************************************************************************)
MaxTicks == 2       \* clock steps taken
MaxTokens == 2      \* tokens issued
MaxKeys == 2        \* distinct key strings the generator can return
MaxStoredKeys == 1  \* keys registered in the runs of the key registry
max_requests == 2   \* rate_limit(max_requests, ...) of the limited route
window_seconds == 2 \* rate_limit(..., window_seconds) of the limited route
MaxClock == 4       \* seconds that pass
MaxServed == 6      \* requests to the rate-limited route, one after the other
MaxGuarded == 4     \* requests to the route that is rate-limited and guarded
MaxThreaded == 4    \* requests to the rate-limited route handled by threads
MaxInFlight == 2    \* rate-limited requests handled at the same time

(***************************************************************************)
(* Configuration.                                                          *)
(***************************************************************************)
JWT_EXPIRATION_HOURS == 24
JWT_SECRET == "server-secret"
ClockStep == JWT_EXPIRATION_HOURS
Times == {i * ClockStep : i \in 0..MaxTicks}

DEMO_USERS == [admin |-> <<"admin", "user">>, user |-> <<"user">>]
Users == DOMAIN DEMO_USERS
RoleNames == {"admin", "user"}
RoleLists == {<<>>, <<"user">>, <<"admin">>, <<"admin", "user">>}

(***************************************************************************)
(* JSON text.  A document is a sequence of byte codes: punctuation, string *)
(* literals (10 + index in StringTable), string literals holding an ISO    *)
(* timestamp (100 + hours) and numeric literals (200 + value).             *)
(***************************************************************************)
Punct == [lbrace |-> 1, rbrace |-> 2, lbrack |-> 3, rbrack |-> 4, null |-> 5]
StringTable == <<"alg", "HS256", "typ", "JWT", "user", "roles", "exp", "iat", "admin">>
StrBase == Punct.null + 5
IsoBase == StrBase + 90
NumBase == IsoBase + 100

S(s) == StrBase + (CHOOSE i \in 1..Len(StringTable) : StringTable[i] = s)
Str(c) == StringTable[c - StrBase]
IsName(c) == c > StrBase /\ c <= StrBase + Len(StringTable)
IsIso(c) == c >= IsoBase /\ c < NumBase
IsNum(c) == c >= NumBase /\ c < 256
IsString(c) == IsName(c) \/ IsIso(c)
IsScalar(c) == IsString(c) \/ IsNum(c) \/ c = Punct.null

\* datetime.isoformat() and datetime.fromisoformat() on the string literal
isoformat(t) == IsoBase + t
fromisoformat(c) == c - IsoBase

RECURSIVE DumpList(_)
DumpList(l) == IF l = <<>> THEN <<>> ELSE <<S(Head(l))>> \o DumpList(Tail(l))

\* json.dumps of {'user': .., 'roles': [..], 'exp': iso, 'iat': iso}
json_dumps(p) ==
    <<Punct.lbrace, S("user"), S(p.user), S("roles"), Punct.lbrack>>
    \o DumpList(p.roles)
    \o <<Punct.rbrack, S("exp"), isoformat(p.exp), S("iat"), isoformat(p.iat), Punct.rbrace>>

JsonHeader == <<Punct.lbrace, S("alg"), S("HS256"), S("typ"), S("JWT"), Punct.rbrace>>

\* The keys verify_jwt_token reads; a parsed object maps each to the text of
\* its value, <<>> when the key is absent.
PayloadKeys == {S("user"), S("roles"), S("exp"), S("iat")}
EmptyDict == [k \in PayloadKeys |-> <<>>]
JsonError == [ok |-> FALSE, d |-> EmptyDict]

\* index of the "]" closing the list opened at i, 0 when there is none
ListEnd(b, i) ==
    LET ends == {j \in (i+1)..Len(b) :
                    /\ b[j] = Punct.rbrack
                    /\ \A m \in (i+1)..(j-1) : IsScalar(b[m])}
    IN IF ends = {} THEN 0 ELSE CHOOSE j \in ends : \A m \in ends : j <= m

Put(d, k, v) == IF k \in PayloadKeys THEN [d EXCEPT ![k] = v] ELSE d

RECURSIVE ParseMembers(_, _, _)
ParseMembers(b, i, d) ==
    IF i > Len(b) THEN JsonError
    ELSE IF b[i] = Punct.rbrace
         THEN IF i = Len(b) THEN [ok |-> TRUE, d |-> d] ELSE JsonError
    ELSE IF ~IsString(b[i]) \/ i + 1 > Len(b) THEN JsonError
    ELSE IF IsScalar(b[i+1]) THEN ParseMembers(b, i + 2, Put(d, b[i], <<b[i+1]>>))
    ELSE IF b[i+1] = Punct.lbrack /\ ListEnd(b, i + 1) # 0
         THEN ParseMembers(b, ListEnd(b, i + 1) + 1,
                           Put(d, b[i], SubSeq(b, i + 1, ListEnd(b, i + 1))))
    ELSE JsonError

\* json.loads, for a document that is an object
json_loads(b) ==
    IF Len(b) >= 2 /\ b[1] = Punct.lbrace THEN ParseMembers(b, 2, EmptyDict)
    ELSE JsonError

(***************************************************************************)
(* base64.urlsafe_b64encode(..).decode().rstrip('='): three bytes make     *)
(* four sextets; the padding is stripped.                                  *)
(***************************************************************************)
RECURSIVE b64encode(_)
b64encode(b) ==
    IF Len(b) = 0 THEN <<>>
    ELSE IF Len(b) = 1 THEN <<b[1] \div 4, (b[1] % 4) * 16>>
    ELSE IF Len(b) = 2
         THEN <<b[1] \div 4, (b[1] % 4) * 16 + b[2] \div 16, (b[2] % 16) * 4>>
    ELSE <<b[1] \div 4, (b[1] % 4) * 16 + b[2] \div 16,
           (b[2] % 16) * 4 + b[3] \div 64, b[3] % 64>>
         \o b64encode(SubSeq(b, 4, Len(b)))

\* verify_jwt_token's "padding = 4 - len % 4; if padding != 4: add it"
Padding(e) == IF 4 - (Len(e) % 4) # 4 THEN 4 - (Len(e) % 4) ELSE 0

RECURSIVE DecodeGroups(_)
DecodeGroups(e) ==
    IF Len(e) = 0 THEN <<>>
    ELSE IF Len(e) = 2 THEN <<e[1] * 4 + e[2] \div 16>>
    ELSE IF Len(e) = 3
         THEN <<e[1] * 4 + e[2] \div 16, (e[2] % 16) * 16 + e[3] \div 4>>
    ELSE <<e[1] * 4 + e[2] \div 16, (e[2] % 16) * 16 + e[3] \div 4,
           (e[3] % 4) * 64 + e[4]>>
         \o DecodeGroups(SubSeq(e, 5, Len(e)))

\* base64.urlsafe_b64decode of the re-padded text: one data character more
\* than a multiple of four (three "=" added) is binascii.Error
b64decode(e) ==
    IF Padding(e) = 3 THEN [ok |-> FALSE, bytes |-> <<>>]
    ELSE [ok |-> TRUE, bytes |-> DecodeGroups(e)]

(***************************************************************************)
(* HMAC-SHA256, symbolically: the digest is determined by key and message, *)
(* and two digests are equal only when both are.  flip # 0 is a digest     *)
(* with one byte changed.                                                  *)
(***************************************************************************)
TokenChars == [dot |-> 64]
hmac_new(key, msg) == [key |-> key, msg |-> msg, flip |-> 0]
SignedMessage(h, p) == h \o <<TokenChars.dot>> \o p

(***************************************************************************)
(* Identities.  None is the value every failed check returns; an identity  *)
(* is the dict {'user', 'roles', 'authenticated': True}.                   *)
(***************************************************************************)
NoUser == "<None>"
NoneVal == [user |-> NoUser, roles |-> <<>>, authenticated |-> FALSE]
Identity(u, r) == [user |-> u, roles |-> r, authenticated |-> TRUE]

\* the Python value of a JSON value text that is a string (None when the
\* key is absent) and of one that is a list of strings
PyStr(v) == IF Len(v) = 1 /\ IsName(v[1]) THEN Str(v[1]) ELSE NoUser
PyList(v) == [i \in 1..(Len(v) - 2) |-> Str(v[i + 1])]
\* the Python value of the text of "roles": a list; a string, in which
\* "role in roles" looks for the role's name (a role name is found in the
\* string that is that name); or a number or null, which "in" cannot search
NotIterable == <<"<not iterable>">>
PyRoles(v) ==
    IF v[1] = Punct.lbrack THEN PyList(v)
    ELSE IF IsName(v[1]) THEN <<Str(v[1])>>
    ELSE IF IsString(v[1]) THEN <<>>
    ELSE NotIterable

(***************************************************************************)
(* Token codec.  A token is the list of its dot-separated parts.           *)
(***************************************************************************)
encoded_header == b64encode(JsonHeader)

create_jwt_token(user, roles, t) ==
    LET payload == [user |-> user,
                    roles |-> IF roles = <<>> THEN <<"user">> ELSE roles,
                    exp |-> t + JWT_EXPIRATION_HOURS,
                    iat |-> t]
        encoded_payload == b64encode(json_dumps(payload))
        signature == hmac_new(JWT_SECRET, SignedMessage(encoded_header, encoded_payload))
    IN <<encoded_header, encoded_payload, signature>>

\* "exp = fromisoformat(exp_str) if isinstance(exp_str, str) else
\* fromtimestamp(exp_str)": [ok, t]; not ok is the ValueError / TypeError
ExpOf(v) ==
    IF Len(v) # 1 THEN [ok |-> FALSE, t |-> 0]
    ELSE IF IsIso(v[1]) THEN [ok |-> TRUE, t |-> fromisoformat(v[1])]
    ELSE IF IsNum(v[1]) THEN [ok |-> TRUE, t |-> v[1] - NumBase]
    ELSE [ok |-> FALSE, t |-> 0]

\* "if datetime.utcnow() > exp: return None", and the same test reversed
IsExpiredReversed(t, exp) == exp > t
IsExpired(t, exp) == t > exp

verify_jwt_token(token, t) ==
    IF token = <<>> THEN NoneVal
    ELSE IF Len(token) # 3 THEN NoneVal
    ELSE LET raw == b64decode(token[2])
             doc == json_loads(raw.bytes)
             payload == doc.d
             exp == ExpOf(payload[S("exp")])
         IN IF ~raw.ok \/ ~doc.ok THEN NoneVal
            ELSE IF payload[S("exp")] = <<>> \/ ~exp.ok THEN NoneVal
            ELSE IF IsExpired(t, exp.t) THEN NoneVal
            ELSE Identity(PyStr(payload[S("user")]),
                          IF payload[S("roles")] = <<>> THEN <<"user">>
                          ELSE PyRoles(payload[S("roles")]))

(***************************************************************************)
(* API key registry.  Key strings are 1..MaxKeys; NoKey is a missing or    *)
(* empty X-API-Key header and MaxKeys + 1 a string the generator never     *)
(* returned.  A row of the api_keys relation holds user_name, roles,       *)
(* is_active, expires_at and last_used_at (TIMESTAMP columns, NULL when    *)
(* unset).                                                                 *)
(***************************************************************************)
KeyStrings == 1..MaxKeys
NoKey == 0
KeyHeaders == {NoKey} \cup KeyStrings \cup {MaxKeys + 1}
Sql == [null |-> 0 - 1]

\* What a step of a database call can do: succeed, find the pool unable to
\* hand out a connection (getconn returns None or raises), or fail in execute.
DbFaults == {"ok", "getconn_none", "getconn_raises", "execute_raises"}
\* ... or fail in commit, or fail in execute and again in the rollback of
\* the except block (a connection that was lost)
PoolFaults == DbFaults \cup {"commit_raises", "rollback_raises"}

\* ThreadedConnectionPool(minconn=1, maxconn=5): getconn raises PoolError
\* once maxconn connections are out
maxconn == 5
getconn(f) == IF checked_out >= maxconn THEN "getconn_raises" ELSE f

\* the record of the in-memory map (its created_at stamp, which no operation
\* of the registry or the guard reads, is left out), and a record that
\* forgets the roles it was given
MemRecordNoRoles(user, roles, t) == [user |-> user, roles |-> <<"user">>]
MemRecord(user, roles, t) ==
    [user |-> user, roles |-> IF roles = <<>> THEN <<"user">> ELSE roles]
Row(user, roles) ==
    [user |-> user, roles |-> IF roles = <<>> THEN <<"user">> ELSE roles,
     is_active |-> TRUE, expires_at |-> Sql.null, last_used_at |-> Sql.null]

Bind(f, k, v) == [x \in (DOMAIN f) \cup {k} |-> IF x = k THEN v ELSE f[x]]

\* INSERT .. ON CONFLICT (api_key) DO NOTHING.  [raised, table, held]:
\* getconn raising leaves "conn" unbound in the except block, which raises
\* again; a rollback that raises leaves the except block before putconn, so
\* the connection stays out (held = 1).
store_api_key_in_db(tbl, api_key, user, roles, f) ==
    IF ~db_pool THEN [raised |-> FALSE, table |-> tbl, held |-> 0]
    ELSE IF getconn(f) = "getconn_raises" THEN [raised |-> TRUE, table |-> tbl, held |-> 0]
    ELSE IF f = "rollback_raises" THEN [raised |-> TRUE, table |-> tbl, held |-> 1]
    ELSE IF f = "ok" /\ api_key \notin DOMAIN tbl
         THEN [raised |-> FALSE, table |-> Bind(tbl, api_key, Row(user, roles)), held |-> 0]
    ELSE [raised |-> FALSE, table |-> tbl, held |-> 0]

\* SELECT .. WHERE api_key = %s; the row is returned only "if row and row[3]".
\* The except block has no rollback: it puts the connection back.
get_api_key_from_db(tbl, api_key, f) ==
    IF ~db_pool THEN [raised |-> FALSE, found |-> FALSE]
    ELSE IF getconn(f) = "getconn_raises" THEN [raised |-> TRUE, found |-> FALSE]
    ELSE IF f = "ok" /\ api_key \in DOMAIN tbl /\ tbl[api_key].is_active
         THEN [raised |-> FALSE, found |-> TRUE]
    ELSE [raised |-> FALSE, found |-> FALSE]

\* UPDATE api_keys SET last_used_at = CURRENT_TIMESTAMP WHERE api_key = %s
update_api_key_last_used(tbl, api_key, f, t) ==
    IF ~db_pool THEN [raised |-> FALSE, table |-> tbl, held |-> 0]
    ELSE IF getconn(f) = "getconn_raises" THEN [raised |-> TRUE, table |-> tbl, held |-> 0]
    ELSE IF f = "rollback_raises" THEN [raised |-> TRUE, table |-> tbl, held |-> 1]
    ELSE IF f = "ok" /\ api_key \in DOMAIN tbl
         THEN [raised |-> FALSE, table |-> [tbl EXCEPT ![api_key].last_used_at = t],
               held |-> 0]
    ELSE [raised |-> FALSE, table |-> tbl, held |-> 0]

\* register_api_key with the key the generator returned:
\* [raised, mem, table, held]
register_api_key(api_key, user, roles, f, t) ==
    LET mem == Bind(API_KEYS, api_key, MemRecord(user, roles, t))
        st == store_api_key_in_db(table, api_key, user, roles, f)
    IN [raised |-> st.raised, mem |-> mem, table |-> st.table, held |-> st.held]

\* validate_api_key: [raised, val, table, held].  The in-memory map is looked up
\* first; the durable store only for a key the map does not hold.  A non-NULL
\* expires_at is a datetime, and datetime.replace('Z', '+00:00') raises
\* TypeError.
validate_api_key(api_key, fl, fu, t) ==
    IF api_key = NoKey THEN [raised |-> FALSE, val |-> NoneVal, table |-> table, held |-> 0]
    ELSE IF api_key \in DOMAIN API_KEYS
         THEN [raised |-> FALSE,
               val |-> Identity(API_KEYS[api_key].user, API_KEYS[api_key].roles),
               table |-> table, held |-> 0]
    ELSE IF db_pool
         THEN LET got == get_api_key_from_db(table, api_key, fl)
                  upd == update_api_key_last_used(table, api_key, fu, t)
              IN IF got.raised THEN [raised |-> TRUE, val |-> NoneVal, table |-> table, held |-> 0]
                 ELSE IF ~got.found THEN [raised |-> FALSE, val |-> NoneVal, table |-> table, held |-> 0]
                 ELSE IF table[api_key].expires_at # Sql.null
                      THEN [raised |-> TRUE, val |-> NoneVal, table |-> table, held |-> 0]
                 ELSE IF upd.raised
                      THEN [raised |-> TRUE, val |-> NoneVal, table |-> table,
                            held |-> upd.held]
                 ELSE [raised |-> FALSE,
                       val |-> Identity(table[api_key].user, table[api_key].roles),
                       table |-> upd.table, held |-> 0]
    ELSE [raised |-> FALSE, val |-> NoneVal, table |-> table, held |-> 0]

(***************************************************************************)
(* The guard.  An Authorization header is its text up to the token and the *)
(* token; a missing header reads as the empty string.                      *)
(***************************************************************************)
BearerPrefix == <<"B", "e", "a", "r", "e", "r", " ">>
NoHeader == [text |-> <<>>, token |-> <<>>]
Bearer(tok) == [text |-> BearerPrefix, token |-> tok]
LowerBearer(tok) == [text |-> <<"b", "e", "a", "r", "e", "r", " ">>, token |-> tok]
MalformedHeaders ==
    { [text |-> <<"B", "e", "a", "r", "e", "r">>, token |-> <<>>],
      [text |-> <<"B", "a", "s", "i", "c", " ", "x">>, token |-> <<>>] }

\* auth_header.startswith('Bearer ')
startswith_bearer(h) ==
    Len(h.text) >= Len(BearerPrefix) /\ SubSeq(h.text, 1, Len(BearerPrefix)) = BearerPrefix

\* any(role in user_roles for role in roles), and a check that passes all
AnyRoleSkipped(roles, user_roles) == TRUE
AnyRole(roles, user_roles) ==
    \E i \in 1..Len(roles) : \E j \in 1..Len(user_roles) : roles[i] = user_roles[j]

Policy(api, jwt, roles) == [api_key_required |-> api, jwt_required |-> jwt, roles |-> roles]

Answer(status, info, examined, tbl) ==
    [status |-> status, handler |-> status = 200,
     g |-> IF status = 200 THEN info ELSE NoneVal,
     jwt_examined |-> examined, table |-> tbl]
\* the answer, with the connections the request left checked out
Holding(answer, held) ==
    [x \in DOMAIN answer \cup {"held"} |-> IF x = "held" THEN held ELSE answer[x]]

\* "if api_key_required: ... if not auth_info: return 401"
KeyStageRejects(pol, key_info) == pol.api_key_required /\ ~key_info.authenticated

\* "if jwt_required and not auth_info", and a guard that asks for the token
\* whether or not the key gave an identity
TryJwtAlways(pol, key_info) == pol.jwt_required
TryJwt(pol, key_info) == pol.jwt_required /\ ~key_info.authenticated

\* decorated_function of require_auth: 200 stands for "the wrapped handler
\* was called" (g holds current_user, user_roles, authenticated), 500 for an
\* exception that left the decorator ("role in user_roles" raises TypeError
\* when user_roles is a number or None).
require_auth(pol, api_key, auth_header, fl, fu, t) ==
    LET k == validate_api_key(api_key, fl, fu, t)
        tbl == IF pol.api_key_required THEN k.table ELSE table
        key_info == IF pol.api_key_required THEN k.val ELSE NoneVal
        try_jwt == TryJwt(pol, key_info)
        examined == try_jwt /\ startswith_bearer(auth_header)
        auth_info == IF examined THEN verify_jwt_token(auth_header.token, t) ELSE key_info
        held == IF pol.api_key_required THEN k.held ELSE 0
    IN Holding(
       IF pol.api_key_required /\ k.raised THEN Answer(500, NoneVal, FALSE, table)
       ELSE IF KeyStageRejects(pol, key_info) THEN Answer(401, NoneVal, FALSE, tbl)
       ELSE IF try_jwt /\ ~startswith_bearer(auth_header) THEN Answer(401, NoneVal, FALSE, tbl)
       ELSE IF examined /\ ~auth_info.authenticated THEN Answer(401, NoneVal, TRUE, tbl)
       ELSE IF (pol.api_key_required \/ pol.jwt_required) /\ ~auth_info.authenticated
            THEN Answer(401, NoneVal, examined, tbl)
       ELSE IF pol.roles # <<>> /\ auth_info.authenticated /\ auth_info.roles = NotIterable
            THEN Answer(500, NoneVal, examined, tbl)
       ELSE IF pol.roles # <<>> /\ auth_info.authenticated
               /\ ~AnyRole(pol.roles, auth_info.roles)
            THEN Answer(403, NoneVal, examined, tbl)
       ELSE Answer(200, auth_info, examined, tbl),
       held)

(***************************************************************************)
(* User accounts and login.  A JSON value of a login body is a string, or  *)
(* one of the tags below for null, for a list and for a field the body     *)
(* does not have.  A bcrypt hash is kept symbolically: the salt and the    *)
(* password it was made from; checkpw hashes the candidate with the salt   *)
(* of the stored hash and compares.                                        *)
(***************************************************************************)
JsonNull == NoUser
JsonList == "<list>"
Missing == "<missing>"
IsStr(v) == v \notin {JsonNull, JsonList, Missing}

hash_password(password) == [salt |-> "gensalt", password |-> password]
checkpw(password, hashed) == [salt |-> hashed.salt, password |-> password] = hashed

\* _init_demo_users: the stored hashes
PasswordHashes == [admin |-> hash_password("admin123"), user |-> hash_password("user123")]

\* password.encode('utf-8') raises AttributeError for a value that is no
\* string; the except block turns every exception into False
verify_password(password, hashed) == IsStr(password) /\ checkpw(password, hashed)

\* authenticate_user: [raised, found, username, roles].  DEMO_USERS.get of an
\* unhashable value (a list) raises TypeError, which the function lets pass.
NoMatch == [raised |-> FALSE, found |-> FALSE, username |-> NoUser, roles |-> <<>>]
authenticate_user(username, password) ==
    IF username = JsonList THEN [NoMatch EXCEPT !.raised = TRUE]
    ELSE IF username \notin DOMAIN DEMO_USERS THEN NoMatch
    ELSE IF verify_password(password, PasswordHashes[username])
         THEN [raised |-> FALSE, found |-> TRUE, username |-> username,
               roles |-> DEMO_USERS[username]]
    ELSE NoMatch

\* A login body: a JSON object with its two fields, or JSON of another kind
LoginBody(username, password) ==
    [kind |-> "object", username |-> username, password |-> password]
NotAnObjectBody == [kind |-> "array", username |-> Missing, password |-> Missing]
\* data.get(field, '')
Get(v) == IF v = Missing THEN "" ELSE v

\* What a login answers and does: the response, and the registry after it
\* (created: the tokens create_jwt_token made while the request was handled)
LoginAnswer(status, message, token, api_key, user, roles, mem, tbl, held, created) ==
    [status |-> status, message |-> message, token |-> token, api_key |-> api_key,
     user |-> user, roles |-> roles,
     expires_in |-> IF status = 200 THEN JWT_EXPIRATION_HOURS * 3600 ELSE 0,
     mem |-> mem, table |-> tbl, held |-> held, created |-> created]
Rejected(status, message) ==
    LoginAnswer(status, message, <<>>, NoKey, NoUser, <<>>, API_KEYS, table, 0, {})

\* the success branch of the three login handlers: the token is made, the
\* key registered; an exception of register_api_key is answered with 500
\* after API_KEYS was written
Granted(username, roles, api_key, f, t) ==
    LET reg == register_api_key(api_key, username, roles, f, t)
        token == create_jwt_token(username, roles, t)
        created == {[token |-> token, user |-> username, roles |-> roles, iat |-> t]}
    IN IF reg.raised
       THEN LoginAnswer(500, "error", <<>>, NoKey, NoUser, <<>>, reg.mem, reg.table,
                        reg.held, created)
       ELSE LoginAnswer(200, "success", token, api_key, username, roles, reg.mem,
                        reg.table, reg.held, created)

\* login of app.py: the two credential pairs are written in the handler;
\* "request.json or {}" of a body that is no object has no get
flask_login(body, api_key, f, t) ==
    LET username == Get(body.username)
        password == Get(body.password)
    IN IF body.kind # "object" THEN Rejected(500, "error")
       ELSE IF username = "admin" /\ password = "admin123"
            THEN Granted(username, <<"admin", "user">>, api_key, f, t)
       ELSE IF username = "user" /\ password = "user123"
            THEN Granted(username, <<"user">>, api_key, f, t)
       ELSE Rejected(401, "Invalid credentials")

\* login of routes/auth_routes.py and of app_asgi.py: authenticate_user decides
users_login(body, api_key, f, t) ==
    LET username == Get(body.username)
        password == Get(body.password)
        user_data == authenticate_user(username, password)
    IN IF body.kind # "object" THEN Rejected(500, "error")
       ELSE IF user_data.raised THEN Rejected(500, "error")
       ELSE IF user_data.found THEN Granted(username, user_data.roles, api_key, f, t)
       ELSE Rejected(401, "Invalid credentials")

LoginVariants == {"flask", "users"}
login(variant, body, api_key, f, t) ==
    IF variant = "flask" THEN flask_login(body, api_key, f, t)
    ELSE users_login(body, api_key, f, t)

(***************************************************************************)
(* The admin key listing.  The text of a key is the 43 characters of       *)
(* secrets.token_urlsafe(32), each one of the 64 of the URL-safe alphabet; *)
(* Dot is the character of the ellipsis.                                   *)
(***************************************************************************)
KeyLength == 43
Dot == 64
KeyText(k) == [i \in 1..KeyLength |-> (k * i) % 64]

\* api_key[:8] + '...'
key_preview(text) == SubSeq(text, 1, 8) \o <<Dot, Dot, Dot>>

\* the keys of a map in the order the loop meets them
RECURSIVE ItemsOf(_)
ItemsOf(keys) ==
    IF keys = {} THEN <<>>
    ELSE LET k == CHOOSE x \in keys : \A y \in keys : x <= y
         IN <<k>> \o ItemsOf(keys \ {k})

\* "for api_key, data in API_KEYS.items(): keys.append({...})"
KeyEntries(mem) ==
    LET items == ItemsOf(DOMAIN mem)
    IN [n \in 1..Len(items) |->
          [user |-> mem[items[n]].user, roles |-> mem[items[n]].roles,
           key_preview |-> key_preview(KeyText(items[n]))]]

\* GET /auth/api-keys of app.py: [status, api_keys]
AdminPolicy == Policy(FALSE, TRUE, <<"admin">>)
list_api_keys(auth_header, t) ==
    LET a == require_auth(AdminPolicy, NoKey, auth_header, "ok", "ok", t)
    IN IF a.status # 200 THEN [status |-> a.status, api_keys |-> <<>>]
       ELSE [status |-> 200, api_keys |-> KeyEntries(API_KEYS)]

\* GET /auth/api-keys of app_asgi.py: the token is verified in the handler;
\* with a database pool the handler calls api_keys.get_all_api_keys_from_db,
\* which the module does not define, and the AttributeError is answered 500
asgi_list_api_keys(auth_header, t) ==
    LET payload == verify_jwt_token(auth_header.token, t)
    IN IF ~payload.authenticated THEN [status |-> 401, api_keys |-> <<>>]
       ELSE IF ~AnyRole(<<"admin">>, payload.roles) THEN [status |-> 403, api_keys |-> <<>>]
       ELSE IF app_db_pool THEN [status |-> 500, api_keys |-> <<>>]
       ELSE [status |-> 200, api_keys |-> KeyEntries(API_KEYS)]

(***************************************************************************)
(* The rate limiter.  _rate_limit_storage maps a key (request.remote_addr) *)
(* to the list of the times of its admitted requests.  The wrapper is      *)
(* written as the steps a thread takes - read the clock, build the purged  *)
(* list, store it, count, append - and as their composition, which is what *)
(* one request does when no other runs.                                    *)
(***************************************************************************)
Clients == {"10.0.0.1", "10.0.0.2"}
RequestIds == 1..MaxInFlight
NoRequest == [pc |-> "idle", key |-> "", now |-> 0, fresh |-> <<>>]

\* _rate_limit_storage.get(key, [])
StoredTimes(storage, key) == IF key \in DOMAIN storage THEN storage[key] ELSE <<>>

\* a purge that lets every stored time stay
KeepAll(storage, key, t) == StoredTimes(storage, key)
\* [ts for ts in _rate_limit_storage.get(key, []) if ts > window_start]
Purged(storage, key, t) ==
    LET window_start == t - window_seconds
        InWindow(ts) == ts > window_start
    IN SelectSeq(StoredTimes(storage, key), InWindow)

\* a limit test that lets one request more pass
OverLimitLate(request_count) == request_count > max_requests
\* request_count >= max_requests
OverLimit(request_count) == request_count >= max_requests

\* the 429 answer and the call of the wrapped function
LimiterAnswer(status, storage) ==
    [status |-> status, retry_after |-> IF status = 429 THEN window_seconds ELSE 0,
     storage |-> storage]

\* decorated_function of rate_limit, run without interruption at time t
rate_limit(storage, key, t) ==
    LET cleaned == Bind(storage, key, Purged(storage, key, t))
    IN IF OverLimit(Len(cleaned[key])) THEN LimiterAnswer(429, cleaned)
       ELSE LimiterAnswer(200, [cleaned EXCEPT ![key] = Append(@, t)])

\* /protected of app.py: require_auth is the outer decorator, so the limiter
\* runs only for a request the guard lets through
ProtectedPolicy == Policy(FALSE, TRUE, <<>>)
protected_endpoint(storage, key, auth_header, t_auth, t) ==
    LET a == require_auth(ProtectedPolicy, NoKey, auth_header, "ok", "ok", t_auth)
    IN IF a.status # 200 THEN LimiterAnswer(a.status, storage)
       ELSE rate_limit(storage, key, t)

(***************************************************************************)
(* What a client can put in a request: the tokens it was issued, those     *)
(* with a byte of the signature changed or the payload replaced, a token   *)
(* it signed itself, and strings that are no token.                        *)
(***************************************************************************)
MaxTime == MaxTicks * ClockStep
ForgedPayload ==
    b64encode(json_dumps([user |-> "admin", roles |-> <<"admin", "user">>,
                          exp |-> MaxTime + JWT_EXPIRATION_HOURS, iat |-> 0]))
ForgedToken ==
    <<encoded_header, ForgedPayload,
      hmac_new("client-secret", SignedMessage(encoded_header, ForgedPayload))>>
TamperSignature(tok) == <<tok[1], tok[2], [tok[3] EXCEPT !.flip = 1]>>
SwapPayload(tok) == <<tok[1], ForgedPayload, tok[3]>>
GenuineTokens == {i.token : i \in issued}
TamperedTokens ==
    {TamperSignature(tok) : tok \in GenuineTokens} \cup {SwapPayload(tok) : tok \in GenuineTokens}
NoToken == <<>>
TwoParts == <<encoded_header, ForgedPayload>>
BadBase64 == <<encoded_header, <<1>>, ForgedToken[3]>>
NotAnObject == <<encoded_header, b64encode(<<Punct.lbrack, Punct.rbrack>>), ForgedToken[3]>>
NoExp ==
    <<encoded_header,
      b64encode(<<Punct.lbrace, S("user"), S("admin"), Punct.rbrace>>), ForgedToken[3]>>
MalformedTokens == {NoToken, TwoParts, BadBase64, NotAnObject, NoExp}
\* tokens whose payload is an object with a good exp and a "roles" or an
\* "exp" of another type than create_jwt_token writes
Claims(roles_text, exp_text) ==
    <<encoded_header,
      b64encode(<<Punct.lbrace, S("user"), S("admin"), S("roles"), roles_text,
                  S("exp"), exp_text, Punct.rbrace>>),
      ForgedToken[3]>>
FarFuture == isoformat(MaxTime + JWT_EXPIRATION_HOURS)
FourParts == ForgedToken \o <<ForgedToken[3]>>
RolesNumber == Claims(NumBase + 1, FarFuture)
RolesNull == Claims(Punct.null, FarFuture)
RolesString == Claims(S("admin"), FarFuture)
ExpNull == Claims(S("admin"), Punct.null)
ExpName == Claims(S("admin"), S("admin"))
IllTypedTokens == {FourParts, RolesNumber, RolesNull, RolesString, ExpNull, ExpName}
PresentableTokens == GenuineTokens \cup TamperedTokens \cup {ForgedToken} \cup MalformedTokens

(***************************************************************************)
(* State machine.  One call is in progress at a time: vr, kr and resp hold *)
(* the call that has just been answered until Return hands it back.        *)
(***************************************************************************)
NoVerify == [op |-> "idle", token |-> NoToken, at |-> 0, result |-> NoneVal]
NoValidate ==
    [op |-> "idle", key |-> NoKey, at |-> 0, raised |-> FALSE, result |-> NoneVal,
     lookup |-> "ok", update |-> "ok"]
NoResp ==
    [op |-> "idle", policy |-> Policy(FALSE, FALSE, <<>>), api_key |-> NoKey,
     auth_header |-> NoHeader, at |-> 0, status |-> 0, handler |-> FALSE,
     g |-> NoneVal, jwt_examined |-> FALSE, key_info |-> NoneVal, key_raised |-> FALSE,
     lookup |-> "ok", update |-> "ok", api_keys |-> <<>>]
NoLogin ==
    [op |-> "idle", variant |-> "flask", body |-> LoginBody(Missing, Missing), at |-> 0,
     status |-> 0, message |-> "", token |-> NoToken, api_key |-> NoKey,
     user |-> NoUser, roles |-> <<>>, expires_in |-> 0, raised |-> FALSE,
     mem_before |-> <<>>, table_before |-> <<>>]
Idle == vr.op = "idle" /\ kr.op = "idle" /\ resp.op = "idle" /\ lr.op = "idle"

NoDbRequest == [op |-> "idle", variant |-> "app", fault |-> "ok", status |-> 0]

\* the process after its imports, whatever Redis and the application's own
\* pool did
Started ==
    /\ now = 0
    /\ issued = {}
    /\ vr = NoVerify
    /\ API_KEYS = <<>>
    /\ db_pool \in BOOLEAN
    /\ app_db_pool \in BOOLEAN
    /\ table = <<>>
    /\ kr = NoValidate
    /\ resp = NoResp
    /\ checked_out = 0
    /\ lr = NoLogin
    /\ clock = 0
    /\ rate_limit_storage = <<>>
    /\ inflight = [r \in RequestIds |-> NoRequest]
    /\ served = <<>>
    /\ redis_client \in BOOLEAN
    /\ redis_db = <<>>
    /\ answered = <<>>
    /\ flask_db_pool \in BOOLEAN
    /\ pool_out = 0
    /\ dr = NoDbRequest

\* ... started with neither REDIS_HOST nor DATABASE_HOST reachable
Init == Started /\ ~redis_client /\ ~flask_db_pool

Tick ==
    /\ Idle
    /\ now < MaxTime
    /\ now' = now + ClockStep
    /\ UNCHANGED <<issued, vr, API_KEYS, db_pool, app_db_pool, table, kr, resp, checked_out, lr, limiterVars, webVars>>

Issue(user, roles) ==
    issued \cup {[token |-> create_jwt_token(user, roles, now),
                  user |-> user, roles |-> roles, iat |-> now]}

CreateToken(user, roles) ==
    /\ Idle
    /\ Cardinality(issued) < MaxTokens
    /\ issued' = Issue(user, roles)
    /\ UNCHANGED <<now, vr, API_KEYS, db_pool, app_db_pool, table, kr, resp, checked_out, lr, limiterVars, webVars>>

VerifyToken(tok) ==
    /\ Idle
    /\ vr' = [op |-> "verify", token |-> tok, at |-> now,
              result |-> verify_jwt_token(tok, now)]
    /\ UNCHANGED <<now, issued, API_KEYS, db_pool, app_db_pool, table, kr, resp, checked_out, lr, limiterVars, webVars>>

\* secrets.token_urlsafe(32) of generate_api_key: a key no one holds yet
Stored == DOMAIN API_KEYS \cup DOMAIN table
Fresh(api_key) == api_key \notin Stored

\* POST /auth/login with a registered username and its password: the token
\* and the key are made for the user's registered roles
LoginAttempt(variant, body, api_key, f) ==
    LET a == login(variant, body, api_key, f, now)
    IN /\ Idle
       /\ Fresh(api_key)
       /\ Cardinality(issued) < MaxTokens
       /\ issued' = issued \cup a.created
       /\ API_KEYS' = a.mem
       /\ table' = a.table
       /\ checked_out' = checked_out + a.held
       /\ lr' = [op |-> "login", variant |-> variant, body |-> body, at |-> now,
                 status |-> a.status, message |-> a.message, token |-> a.token,
                 api_key |-> a.api_key, user |-> a.user, roles |-> a.roles,
                 expires_in |-> a.expires_in, raised |-> FALSE,
                 mem_before |-> API_KEYS, table_before |-> table]
       /\ UNCHANGED <<now, vr, db_pool, app_db_pool, kr, resp, limiterVars, webVars>>

\* POST /auth/login of app.py with a registered username and its password
Login(user, api_key, f) ==
    /\ user \in Users
    /\ LoginAttempt("flask", LoginBody(user, PasswordHashes[user].password), api_key, f)

\* authenticate_user called with the two values of a login body
Authenticate(username, password) ==
    LET a == authenticate_user(username, password)
    IN /\ Idle
       /\ lr' = [NoLogin EXCEPT !.op = "authenticate",
                                !.body = LoginBody(username, password),
                                !.raised = a.raised,
                                !.user = a.username, !.roles = a.roles,
                                !.status = IF a.found THEN 200 ELSE 401]
       /\ UNCHANGED <<now, issued, vr, API_KEYS, db_pool, app_db_pool, table, kr, resp,
                      checked_out, limiterVars, webVars>>

RegisterKey(user, roles, api_key, f) ==
    LET reg == register_api_key(api_key, user, roles, f, now)
    IN /\ Idle
       /\ Fresh(api_key)
       /\ Cardinality(Stored) < MaxStoredKeys
       /\ API_KEYS' = reg.mem
       /\ table' = reg.table
       /\ checked_out' = checked_out + reg.held
       /\ UNCHANGED <<now, issued, vr, db_pool, app_db_pool, kr, resp, lr, limiterVars, webVars>>

\* register_api_key with whatever string the generator returns, a string
\* it returned before included; kr records the call
Register(user, roles, api_key, f) ==
    LET reg == register_api_key(api_key, user, roles, f, now)
    IN /\ Idle
       /\ API_KEYS' = reg.mem
       /\ table' = reg.table
       /\ checked_out' = checked_out + reg.held
       /\ kr' = [NoValidate EXCEPT !.op = "register", !.key = api_key, !.at = now,
                                   !.raised = reg.raised, !.update = f]
       /\ UNCHANGED <<now, issued, vr, db_pool, app_db_pool, resp, lr, limiterVars, webVars>>

\* register_api_key run by another worker process that shares the durable
\* store: the row is written, this process's map is not
PeerRegister(user, api_key) ==
    /\ Idle
    /\ db_pool
    /\ Fresh(api_key)
    /\ Cardinality(Stored) < MaxStoredKeys
    /\ table' = Bind(table, api_key, Row(user, DEMO_USERS[user]))
    /\ UNCHANGED <<now, issued, vr, API_KEYS, db_pool, app_db_pool, kr, resp, checked_out, lr, limiterVars, webVars>>

\* revoke(key): is_active is set to false in the durable store
Revoke(api_key) ==
    /\ Idle
    /\ api_key \in DOMAIN table
    /\ table[api_key].is_active
    /\ table' = [table EXCEPT ![api_key].is_active = FALSE]
    /\ UNCHANGED <<now, issued, vr, API_KEYS, db_pool, app_db_pool, kr, resp, checked_out, lr, limiterVars, webVars>>

\* the key's expires_at column is given a value: the key expires now
SetExpiry(api_key) ==
    /\ Idle
    /\ api_key \in DOMAIN table
    /\ table[api_key].expires_at = Sql.null
    /\ table' = [table EXCEPT ![api_key].expires_at = now]
    /\ UNCHANGED <<now, issued, vr, API_KEYS, db_pool, app_db_pool, kr, resp, checked_out, lr, limiterVars, webVars>>

\* the lookup and the update can fail only when the call reaches them
LookupFaults(api_key) ==
    IF db_pool /\ api_key # NoKey /\ api_key \notin DOMAIN API_KEYS THEN DbFaults ELSE {"ok"}
UpdateFaults(api_key) ==
    IF /\ db_pool /\ api_key \in DOMAIN table /\ api_key \notin DOMAIN API_KEYS
       /\ table[api_key].is_active /\ table[api_key].expires_at = Sql.null
    THEN DbFaults ELSE {"ok"}

StoreFaults == IF db_pool THEN DbFaults ELSE {"ok"}
\* ... and with the failures of commit and of rollback
Widen(faults) == IF faults = {"ok"} THEN faults ELSE PoolFaults
AsgiLookupFaults(api_key) ==
    IF app_db_pool /\ db_pool /\ api_key # NoKey THEN DbFaults ELSE {"ok"}
AsgiUpdateFaults(api_key) ==
    IF /\ app_db_pool /\ db_pool /\ api_key \in DOMAIN table /\ table[api_key].is_active
    THEN DbFaults ELSE {"ok"}

ValidateKey(api_key, fl, fu) ==
    LET k == validate_api_key(api_key, fl, fu, now)
    IN /\ Idle
       /\ kr' = [op |-> "validate", key |-> api_key, at |-> now,
                 raised |-> k.raised, result |-> k.val, lookup |-> fl, update |-> fu]
       /\ table' = k.table
       /\ checked_out' = checked_out + k.held
       /\ UNCHANGED <<now, issued, vr, API_KEYS, db_pool, app_db_pool, resp, lr, limiterVars, webVars>>

\* a request to a Flask route decorated with require_auth(pol)
\* key_info and key_raised record what validate_api_key gave the guard,
\* lookup and update what the store did when the request reached it
Request(pol, api_key, auth_header, fl, fu) ==
    LET a == require_auth(pol, api_key, auth_header, fl, fu, now)
        k == validate_api_key(api_key, fl, fu, now)
    IN /\ Idle
       /\ resp' = [op |-> "guard", policy |-> pol, api_key |-> api_key,
                   auth_header |-> auth_header, at |-> now, status |-> a.status,
                   handler |-> a.handler, g |-> a.g, jwt_examined |-> a.jwt_examined,
                   key_info |-> IF pol.api_key_required THEN k.val ELSE NoneVal,
                   key_raised |-> pol.api_key_required /\ k.raised,
                   lookup |-> fl, update |-> fu, api_keys |-> <<>>]
       /\ table' = a.table
       /\ checked_out' = checked_out + a.held
       /\ UNCHANGED <<now, issued, vr, API_KEYS, db_pool, app_db_pool, kr, lr, limiterVars, webVars>>

\* GET /api-key-test of app_asgi.py
asgi_api_key_test(x_api_key, fl, fu, t) ==
    LET got == get_api_key_from_db(table, x_api_key, fl)
        upd == update_api_key_last_used(table, x_api_key, fu, t)
        unheld(answer) == Holding(answer, 0)
    IN IF x_api_key = NoKey THEN unheld(Answer(401, NoneVal, FALSE, table))
       ELSE IF app_db_pool
            THEN IF got.raised THEN unheld(Answer(500, NoneVal, FALSE, table))
                 ELSE IF ~got.found THEN unheld(Answer(401, NoneVal, FALSE, table))
                 ELSE IF upd.raised
                      THEN Holding(Answer(500, NoneVal, FALSE, table), upd.held)
                 ELSE unheld(Answer(200, Identity(table[x_api_key].user,
                                                  table[x_api_key].roles),
                                    FALSE, upd.table))
       ELSE IF x_api_key \in DOMAIN API_KEYS
            THEN unheld(Answer(200, Identity(API_KEYS[x_api_key].user,
                                             API_KEYS[x_api_key].roles),
                               FALSE, table))
       ELSE unheld(Answer(401, NoneVal, FALSE, table))

AsgiApiKeyTest(x_api_key, fl, fu) ==
    LET a == asgi_api_key_test(x_api_key, fl, fu, now)
    IN /\ Idle
       /\ resp' = [op |-> "asgi", policy |-> Policy(TRUE, FALSE, <<>>), api_key |-> x_api_key,
                   auth_header |-> NoHeader, at |-> now, status |-> a.status,
                   handler |-> a.handler, g |-> a.g, jwt_examined |-> FALSE,
                   key_info |-> a.g, key_raised |-> a.status = 500,
                   lookup |-> fl, update |-> fu, api_keys |-> <<>>]
       /\ table' = a.table
       /\ checked_out' = checked_out + a.held
       /\ UNCHANGED <<now, issued, vr, API_KEYS, db_pool, app_db_pool, kr, lr, limiterVars, webVars>>

\* GET /auth/api-keys
ListKeys(variant, auth_header) ==
    LET a == IF variant = "flask" THEN list_api_keys(auth_header, now)
             ELSE asgi_list_api_keys(auth_header, now)
    IN /\ Idle
       /\ resp' = [NoResp EXCEPT !.op = "list", !.policy = AdminPolicy,
                                  !.auth_header = auth_header, !.at = now,
                                  !.status = a.status, !.handler = (a.status = 200),
                                  !.jwt_examined = TRUE, !.api_keys = a.api_keys]
       /\ UNCHANGED <<now, issued, vr, API_KEYS, db_pool, app_db_pool, table, kr, lr,
                      checked_out, limiterVars, webVars>>

Return ==
    /\ ~Idle
    /\ vr' = NoVerify
    /\ kr' = NoValidate
    /\ resp' = NoResp
    /\ lr' = NoLogin
    /\ UNCHANGED <<now, issued, API_KEYS, db_pool, app_db_pool, table, checked_out, limiterVars, webVars>>

(***************************************************************************)
(* Rate-limited routes.  served is the log of the answered requests: the   *)
(* route, the limiter key, the time the request read and the answer.       *)
(***************************************************************************)
authVars == <<now, issued, vr, API_KEYS, db_pool, app_db_pool, table, kr, resp, checked_out, lr>>
Quiet == \A r \in RequestIds : inflight[r].pc = "idle"
Served(route, key, t, a) ==
    Append(served, [route |-> route, key |-> key, ts |-> t, status |-> a.status,
                    retry_after |-> a.retry_after])

\* time.time() moves on
ClockTick ==
    /\ clock < MaxClock
    /\ clock' = clock + 1
    /\ UNCHANGED <<authVars, rate_limit_storage, inflight, served, webVars>>

\* one request to a route decorated with rate_limit only, handled while no
\* other request is
LimitedRequest(key) ==
    LET a == rate_limit(rate_limit_storage, key, clock)
    IN /\ Quiet
       /\ Len(served) < MaxServed
       /\ rate_limit_storage' = a.storage
       /\ served' = Served("limited", key, clock, a)
       /\ UNCHANGED <<authVars, clock, inflight, webVars>>

\* one request to /protected, handled while no other request is
ProtectedRequest(key, auth_header) ==
    LET a == protected_endpoint(rate_limit_storage, key, auth_header, now, clock)
    IN /\ Quiet
       /\ Len(served) < MaxGuarded
       /\ rate_limit_storage' = a.storage
       /\ served' = Served("protected", key, clock, a)
       /\ UNCHANGED <<authVars, clock, inflight, webVars>>

\* /protected of routes/protected.py: the view function carries no decorator,
\* so it is entered for every request; it reads g.current_user, which nothing
\* has set, and the AttributeError is answered 500
blueprint_protected(storage, auth_header) ==
    [status |-> 500, retry_after |-> 0, storage |-> storage, handler |-> TRUE]

\* the view function of app.py is entered when the guard and the limiter
\* let the request through
WithHandler(answer) ==
    [x \in DOMAIN answer \cup {"handler"} |->
        IF x = "handler" THEN answer.status = 200 ELSE answer[x]]

\* GET /protected in the two variants of the application; resp records the
\* request and whether the view function was entered
RouteVariants == {"app", "blueprint"}
protected_route(variant, storage, key, auth_header, t_auth, t) ==
    IF variant = "app"
    THEN WithHandler(protected_endpoint(storage, key, auth_header, t_auth, t))
    ELSE blueprint_protected(storage, auth_header)
ProtectedRoute(variant, key, auth_header) ==
    /\ Idle /\ Quiet
    /\ \E a \in {protected_route(variant, rate_limit_storage, key, auth_header, now, clock)} :
          /\ rate_limit_storage' = a.storage
          /\ resp' = [NoResp EXCEPT !.op = variant, !.policy = ProtectedPolicy,
                                     !.auth_header = auth_header, !.at = now,
                                     !.status = a.status, !.handler = a.handler]
    /\ UNCHANGED <<now, issued, vr, API_KEYS, db_pool, app_db_pool, table, kr, lr,
                   checked_out, clock, inflight, served, webVars>>

\* The steps of decorated_function of rate_limit for request r, any of which
\* another thread's steps can come between.
\* key = request.remote_addr; now = time.time()
StartRequest(r, key) ==
    /\ inflight[r].pc = "idle"
    /\ Len(served) + Cardinality({q \in RequestIds : inflight[q].pc # "idle"}) < MaxThreaded
    /\ inflight' = [inflight EXCEPT ![r] = [pc |-> "purge", key |-> key, now |-> clock,
                                            fresh |-> <<>>]]
    /\ UNCHANGED <<authVars, clock, rate_limit_storage, served, webVars>>

\* the list comprehension builds the purged list
PurgeStep(r) ==
    /\ inflight[r].pc = "purge"
    /\ inflight' = [inflight EXCEPT ![r].pc = "assign",
                      ![r].fresh = Purged(rate_limit_storage, inflight[r].key, inflight[r].now)]
    /\ UNCHANGED <<authVars, clock, rate_limit_storage, served, webVars>>

\* _rate_limit_storage[key] = <the purged list>
AssignStep(r) ==
    /\ inflight[r].pc = "assign"
    /\ rate_limit_storage' = Bind(rate_limit_storage, inflight[r].key, inflight[r].fresh)
    /\ inflight' = [inflight EXCEPT ![r].pc = "count"]
    /\ UNCHANGED <<authVars, clock, served, webVars>>

\* request_count = len(_rate_limit_storage[key]); the 429 answer
CountStep(r) ==
    LET req == inflight[r]
        over == OverLimit(Len(rate_limit_storage[req.key]))
    IN /\ req.pc = "count"
       /\ IF over
          THEN /\ served' = Served("limited", req.key, req.now,
                                    LimiterAnswer(429, rate_limit_storage))
               /\ inflight' = [inflight EXCEPT ![r] = NoRequest]
          ELSE /\ served' = served
               /\ inflight' = [inflight EXCEPT ![r].pc = "append"]
       /\ UNCHANGED <<authVars, clock, rate_limit_storage, webVars>>

\* _rate_limit_storage[key].append(now); return f(*args, **kwargs)
AppendStep(r) ==
    LET req == inflight[r]
    IN /\ req.pc = "append"
       /\ rate_limit_storage' = [rate_limit_storage EXCEPT ![req.key] = Append(@, req.now)]
       /\ served' = Served("limited", req.key, req.now,
                            LimiterAnswer(200, rate_limit_storage'))
       /\ inflight' = [inflight EXCEPT ![r] = NoRequest]
       /\ UNCHANGED <<authVars, clock, webVars>>

(***************************************************************************)
(* Cached routes.  cache_response wraps a view function; "/" wraps the     *)
(* rate-limited hello, "/info" wraps info.  A view function returns a bare *)
(* Response object, a (data, status) tuple, or raises.  Redis keeps a key  *)
(* until its expiry; answered is the log of the answered requests.         *)
(***************************************************************************)
HelloMax == 3
HelloTtl == 2
InfoTtl == 3
MaxAnswered == 2

\* decorated_function of rate_limit(max_requests=limit, window_seconds=window)
rate_limit_with(limit, window, storage, key, t) ==
    LET window_start == t - window
        InWindow(ts) == ts > window_start
        cleaned == Bind(storage, key, SelectSeq(StoredTimes(storage, key), InWindow))
    IN IF Len(cleaned[key]) >= limit
       THEN [status |-> 429, retry_after |-> window, storage |-> cleaned]
       ELSE [status |-> 200, retry_after |-> 0,
             storage |-> [cleaned EXCEPT ![key] = Append(@, t)]]

CachedHandlers == {"hello", "info", "dict", "raises"}
Path(handler) ==
    CASE handler = "hello" -> "/"
      [] handler = "info" -> "/info"
      [] handler = "dict" -> "/dict"
      [] OTHER -> "/raises"
Ttl(handler) == IF handler = "info" THEN InfoTtl ELSE HelloTtl
\* sorted(request.args.items())
Queries == {<<>>, << <<"page", "1">> >>}
\* f"cache:{request.path}:{str(sorted(request.args.items()))}"
cache_key(path, args) == <<"cache", path, args>>

Body(text, timestamp) == [text |-> text, timestamp |-> timestamp]
NoBody == Body("", 0)
Bare(body) == [shape |-> "response", data |-> "Response", status |-> 200, body |-> body]
Pair(data, status, body) == [shape |-> "tuple", data |-> data, status |-> status, body |-> body]
Raised == [shape |-> "raised", data |-> "none", status |-> 500, body |-> NoBody]

\* hello behind rate_limit(max_requests=100, window_seconds=60): the limiter's
\* 429 is a (Response, 429) tuple, hello's own answer a bare Response that
\* carries datetime.utcnow()
hello(storage, client, t) ==
    LET a == rate_limit_with(HelloMax, window_seconds, storage, client, t)
    IN [result |-> IF a.status = 429 THEN Pair("Response", 429, Body("Rate limit exceeded", 0))
                   ELSE Bare(Body("Hello from Sample App!", t)),
        storage |-> a.storage]
\* info returns (jsonify({...}), 200)
info(storage, client, t) ==
    [result |-> Pair("Response", 200, Body("info", 0)), storage |-> storage]
\* one execution of the wrapped function f
Call(handler, storage, client, t) ==
    CASE handler = "hello" -> hello(storage, client, t)
      [] handler = "info" -> info(storage, client, t)
      [] handler = "dict" -> [result |-> Pair("dict", 200, Body("dict", t)), storage |-> storage]
      [] OTHER -> [result |-> Raised, storage |-> storage]

\* redis_client.get and redis_client.setex
NoValue == [format |-> "nil", body |-> NoBody]
redis_get(db, key, t) ==
    IF key \in DOMAIN db /\ db[key].expires_at > t THEN db[key].value ELSE NoValue
setex(db, key, ttl, value, t) == Bind(db, key, [value |-> value, expires_at |-> t + ttl])

\* app.py writes json.dumps(data.get_json()) and reads with json.loads;
\* cache_utils.py writes str(data) and reads with eval.  Each reader raises
\* on the other writer's text.
CacheVariants == {"app", "cache_utils"}
Format(variant) == IF variant = "app" THEN "json" ELSE "repr"
Encode(variant, body) == [format |-> Format(variant), body |-> body]
Decodes(variant, cached) == cached.format = Format(variant)

CacheOk == [get |-> "ok", set |-> "ok"]
CacheFaults ==
    IF redis_client THEN {CacheOk, [get |-> "raises", set |-> "ok"], [get |-> "ok", set |-> "raises"]}
    ELSE {CacheOk}

CacheAnswer(response, calls, hit, db, storage) ==
    [response |-> response, calls |-> calls, hit |-> hit, db |-> db, storage |-> storage]

\* decorated_function of app.cache_response(ttl)
app_cache_response(handler, args, client, faults, t, db, storage) ==
    LET cache_key_ == cache_key(Path(handler), args)
        cached == redis_get(db, cache_key_, t)
        once == Call(handler, storage, client, t)
        response == once.result
        miss == CacheAnswer(response, 1, FALSE, db, once.storage)
    IN IF ~redis_client THEN miss
       ELSE IF faults.get = "ok" /\ cached # NoValue /\ Decodes("app", cached)
       THEN CacheAnswer(Pair("Response", 200, cached.body), 0, TRUE, db, storage)
       ELSE IF response.shape = "raised" THEN miss
       ELSE IF /\ response.shape = "tuple" /\ response.status = 200
               /\ response.data = "Response" /\ faults.set = "ok"
       THEN [miss EXCEPT !.db = setex(db, cache_key_, Ttl(handler), Encode("app", response.body), t)]
       ELSE miss

\* decorated_function of cache_utils.cache_response(ttl): one try block holds
\* the read, the call of f and the write, and its except block calls f
utils_cache_response(handler, args, client, faults, t, db, storage) ==
    LET cache_key_ == cache_key(Path(handler), args)
        cached == redis_get(db, cache_key_, t)
        once == Call(handler, storage, client, t)
        response == once.result
        miss == CacheAnswer(response, 1, FALSE, db, once.storage)
        again == Call(handler, once.storage, client, t)
    IN IF ~redis_client THEN miss
       ELSE IF faults.get # "ok" THEN miss
       ELSE IF cached # NoValue /\ Decodes("cache_utils", cached)
       THEN CacheAnswer(Pair("Response", 200, cached.body), 0, TRUE, db, storage)
       ELSE IF cached # NoValue THEN miss
       ELSE IF response.shape = "raised" THEN CacheAnswer(again.result, 2, FALSE, db, again.storage)
       ELSE IF /\ response.shape = "tuple" /\ response.status = 200
               /\ response.data = "dict" /\ faults.set = "ok"
       THEN [miss EXCEPT !.db = setex(db, cache_key_, Ttl(handler),
                                        Encode("cache_utils", response.body), t)]
       ELSE miss

cache_response(variant, handler, args, client, faults, t, db, storage) ==
    IF variant = "app" THEN app_cache_response(handler, args, client, faults, t, db, storage)
    ELSE utils_cache_response(handler, args, client, faults, t, db, storage)

\* one request to a cached route, handled while no other request is
CachedRequest(variant, handler, args, client, faults) ==
    /\ Idle /\ Quiet
    /\ Len(answered) < MaxAnswered
    /\ \E a \in {cache_response(variant, handler, args, client, faults, clock,
                                redis_db, rate_limit_storage)} :
          /\ redis_db' = a.db
          /\ rate_limit_storage' = a.storage
          /\ answered' = Append(answered,
                [variant |-> variant, handler |-> handler, args |-> args, at |-> clock,
                 faults |-> faults, status |-> a.response.status, body |-> a.response.body,
                 calls |-> a.calls, hit |-> a.hit])
    /\ UNCHANGED <<authVars, clock, inflight, served, redis_client, flask_db_pool, pool_out, dr>>

(***************************************************************************)
(* Database routes.  /ready, /db/status and /db/query take a connection    *)
(* from the application's pool, run one statement and answer.  app.py and  *)
(* the blueprints (routes/health.py, routes/db.py over db_utils.py) each   *)
(* have their own copy of the handlers.                                    *)
(***************************************************************************)
DbVariants == {"app", "blueprint"}
DbRoutes == {"ready", "db_status", "db_query"}
\* what the statement of a handler can do: succeed, find no connection to
\* take, fail in execute, fail in fetchone or fetchall
QueryFaults == {"ok", "getconn_raises", "execute_raises", "fetch_raises"}
\* get_db_connection: None when the pool is exhausted or getconn raises
get_db_connection(out, f) == IF out >= maxconn THEN "getconn_raises" ELSE f
DbAnswer(status, held) == [status |-> status, held |-> held]

\* ready: the connection is put back on the path without exception only;
\* ready does not fetch
ready(f) ==
    IF ~flask_db_pool \/ f = "getconn_raises" THEN DbAnswer(200, 0)
    ELSE IF f = "execute_raises" THEN DbAnswer(503, 1)
    ELSE DbAnswer(200, 0)
\* db_status of app.py and of routes/db.py
db_status(f) ==
    IF ~flask_db_pool THEN DbAnswer(200, 0)
    ELSE IF f = "getconn_raises" THEN DbAnswer(500, 0)
    ELSE IF f = "ok" THEN DbAnswer(200, 0)
    ELSE DbAnswer(500, 1)
\* db_query of app.py
db_query(f) ==
    IF ~flask_db_pool THEN DbAnswer(503, 0)
    ELSE IF f = "getconn_raises" THEN DbAnswer(500, 0)
    ELSE IF f = "ok" THEN DbAnswer(200, 0)
    ELSE DbAnswer(500, 1)
\* db_query of routes/db.py: "with DatabaseConnection() as conn", whose
\* __exit__ puts the connection back
blueprint_db_query(f) ==
    IF ~flask_db_pool THEN DbAnswer(503, 0)
    ELSE IF f = "getconn_raises" THEN DbAnswer(500, 0)
    ELSE IF f = "ok" THEN DbAnswer(200, 0)
    ELSE DbAnswer(500, 0)
db_route(variant, route, f) ==
    CASE route = "ready" -> ready(f)
      [] route = "db_status" -> db_status(f)
      [] route = "db_query" /\ variant = "app" -> db_query(f)
      [] OTHER -> blueprint_db_query(f)

\* one request to a database route
DbRequest(variant, route, fault) ==
    LET f == get_db_connection(pool_out, fault)
        a == db_route(variant, route, f)
    IN /\ Idle
       /\ pool_out' = pool_out + a.held
       /\ dr' = [op |-> route, variant |-> variant, fault |-> f, status |-> a.status]
       /\ UNCHANGED <<authVars, limiterVars, redis_client, redis_db, answered, flask_db_pool>>

\* one request to "/", handled while no other request is: cache_response
\* around rate_limit around hello
HelloRequest(key) ==
    /\ Quiet
    /\ Len(served) < MaxGuarded
    /\ \E a \in {app_cache_response("hello", <<>>, key, CacheOk, clock, redis_db,
                                    rate_limit_storage)} :
          /\ redis_db' = a.db
          /\ rate_limit_storage' = a.storage
          /\ served' = Served("hello", key, clock,
                              [status |-> a.response.status,
                               retry_after |-> IF a.response.status = 429
                                               THEN window_seconds ELSE 0])
    /\ UNCHANGED <<authVars, clock, inflight, redis_client, answered, flask_db_pool,
                   pool_out, dr>>

(***************************************************************************)
(* Specifications.  SpecJwt drives the token codec alone, SpecKeys the     *)
(* key registry with its durable store, Spec the guarded routes, SpecLogin *)
(* the login endpoints, SpecLimit a rate-limited route whose requests come *)
(* one after the other, SpecProtected the route that is rate-limited and   *)
(* guarded, SpecLimitThreads a rate-limited route served by threads,        *)
(* SpecTokens bearer tokens of every shape, SpecRegister the registration  *)
(* of keys, SpecList the key listing, SpecVariants /protected of app.py    *)
(* and of the blueprint, SpecCache the cached routes, SpecRoutes "/" and   *)
(* /protected together, SpecDb the database routes.                        *)
(***************************************************************************)
Policies == {Policy(a, j, r) : a \in BOOLEAN, j \in BOOLEAN, r \in {<<>>, <<"admin">>}}
AuthHeaders ==
    {NoHeader} \cup MalformedHeaders
    \cup {Bearer(tok) : tok \in GenuineTokens \cup {ForgedToken, NoToken, TwoParts}}
    \cup {LowerBearer(tok) : tok \in GenuineTokens}

NextJwt ==
    \/ Tick
    \/ \E u \in Users, r \in RoleLists : CreateToken(u, r)
    \/ \E u \in Users, k \in KeyStrings : Login(u, k, "ok")
    \/ \E tok \in PresentableTokens : VerifyToken(tok)
    \/ Return
InitJwt == Init /\ db_pool = FALSE /\ app_db_pool = FALSE
SpecJwt == InitJwt /\ [][NextJwt]_vars

Next ==
    \/ Tick
    \/ \E u \in Users, k \in KeyStrings, f \in StoreFaults : Login(u, k, f)
    \/ \E pol \in Policies, k \in KeyHeaders, h \in AuthHeaders :
          \E fl \in LookupFaults(k), fu \in UpdateFaults(k) :
             /\ ~pol.api_key_required => k = NoKey /\ fl = "ok" /\ fu = "ok"
             /\ ~pol.jwt_required => h = NoHeader
             /\ Request(pol, k, h, fl, fu)
    \/ Return
InitFlask == Init /\ app_db_pool = FALSE
Spec == InitFlask /\ [][Next]_vars

ApiKeyTestPolicy == Policy(TRUE, FALSE, <<>>)
NextKeys ==
    \/ Tick
    \/ \E u \in Users, k \in KeyStrings, f \in Widen(StoreFaults) :
          RegisterKey(u, DEMO_USERS[u], k, f)
    \/ \E u \in Users, k \in KeyStrings : PeerRegister(u, k)
    \/ \E k \in KeyStrings : Revoke(k)
    \/ \E k \in KeyStrings : SetExpiry(k)
    \/ \E k \in KeyHeaders : \E fl \in LookupFaults(k), fu \in Widen(UpdateFaults(k)) :
          ValidateKey(k, fl, fu)
    \/ \E k \in KeyHeaders : \E fl \in LookupFaults(k), fu \in Widen(UpdateFaults(k)) :
          Request(ApiKeyTestPolicy, k, NoHeader, fl, fu)
    \/ \E k \in KeyHeaders : \E fl \in AsgiLookupFaults(k), fu \in AsgiUpdateFaults(k) :
          AsgiApiKeyTest(k, fl, fu)
    \/ Return
SpecKeys == Init /\ [][NextKeys]_vars

\* what a client can send to a login endpoint
Usernames == Users \cup {"nobody", "", JsonNull, JsonList, Missing}
Passwords == {PasswordHashes[u].password : u \in Users} \cup {"", JsonNull, JsonList, Missing}
LoginBodies == {LoginBody(u, p) : u \in Usernames, p \in Passwords} \cup {NotAnObjectBody}
NextLogin ==
    \/ Tick
    \/ \E v \in LoginVariants, b \in LoginBodies, k \in KeyStrings, f \in StoreFaults :
          LoginAttempt(v, b, k, f)
    \/ \E u \in Usernames, p \in Passwords : Authenticate(u, p)
    \/ Return
InitLogin == Init /\ app_db_pool = FALSE
SpecLogin == InitLogin /\ [][NextLogin]_vars

\* bearer tokens of every shape on the routes guarded by a token
SendableTokens == PresentableTokens \cup IllTypedTokens
TokenPolicies == {Policy(FALSE, TRUE, <<>>), Policy(FALSE, TRUE, <<"admin">>)}
SentHeaders == {Bearer(tok) : tok \in SendableTokens}
NextTokens ==
    \/ Tick
    \/ \E u \in Users : CreateToken(u, DEMO_USERS[u])
    \/ \E tok \in SendableTokens : VerifyToken(tok)
    \/ \E pol \in TokenPolicies, h \in SentHeaders :
          Request(pol, NoKey, h, "ok", "ok")
    \/ Return
SpecTokens == InitJwt /\ [][NextTokens]_vars

\* registrations, those that meet a string already issued included
NextRegister ==
    \/ \E u \in Users, r \in RoleLists, k \in KeyStrings, f \in StoreFaults :
          Register(u, r, k, f)
    \/ \E u \in Users, k \in KeyStrings : PeerRegister(u, k)
    \/ Return
SpecRegister == Init /\ [][NextRegister]_vars

\* the key listing, after logins here and registrations by another worker
ListVariants == {"flask", "asgi"}
ListHeaders == {NoHeader, Bearer(ForgedToken)} \cup {Bearer(tok) : tok \in GenuineTokens}
NextList ==
    \/ \E u \in Users, k \in KeyStrings, f \in StoreFaults : Login(u, k, f)
    \/ \E u \in Users, k \in KeyStrings : PeerRegister(u, k)
    \/ \E v \in ListVariants, h \in ListHeaders :
          (v = "asgi" => h # NoHeader) /\ ListKeys(v, h)
    \/ Return
InitList == Init /\ (app_db_pool => db_pool)
SpecList == InitList /\ [][NextList]_vars

InitLimit == Init /\ db_pool = FALSE /\ app_db_pool = FALSE

\* the cached routes, with and without Redis
InitCache == Started /\ ~db_pool /\ ~app_db_pool /\ ~flask_db_pool
NextCache ==
    \/ ClockTick
    \/ \E v \in CacheVariants, h \in CachedHandlers, q \in Queries, f \in CacheFaults :
          CachedRequest(v, h, q, "10.0.0.1", f)
SpecCache == InitCache /\ [][NextCache]_vars
NextLimit ==
    \/ ClockTick
    \/ \E c \in Clients : LimitedRequest(c)
SpecLimit == InitLimit /\ [][NextLimit]_vars

ProtectedHeaders == {NoHeader, Bearer(ForgedToken)} \cup {Bearer(tok) : tok \in GenuineTokens}
NextProtected ==
    \/ ClockTick
    \/ CreateToken("user", DEMO_USERS["user"])
    \/ \E c \in Clients, h \in ProtectedHeaders : ProtectedRequest(c, h)
SpecProtected == InitLimit /\ [][NextProtected]_vars

\* GET /protected of the application and of the blueprint
NextVariants ==
    \/ ClockTick
    \/ CreateToken("user", DEMO_USERS["user"])
    \/ \E v \in RouteVariants, c \in Clients, h \in ProtectedHeaders : ProtectedRoute(v, c, h)
    \/ Return
SpecVariants == InitLimit /\ [][NextVariants]_vars

\* the database routes, with and without a pool
InitDb == Started /\ ~db_pool /\ ~app_db_pool /\ ~redis_client
DbFaultsOf(route) ==
    IF ~flask_db_pool THEN {"ok"}
    ELSE IF route = "ready" THEN QueryFaults \ {"fetch_raises"}
    ELSE QueryFaults
NextDb ==
    \E v \in DbVariants, r \in DbRoutes : \E f \in DbFaultsOf(r) : DbRequest(v, r, f)
SpecDb == InitDb /\ [][NextDb]_vars

\* one client's traffic to "/" and to /protected
NextRoutes ==
    \/ ClockTick
    \/ CreateToken("user", DEMO_USERS["user"])
    \/ \E c \in Clients : HelloRequest(c)
    \/ \E c \in Clients, h \in ProtectedHeaders : ProtectedRequest(c, h)
SpecRoutes == InitLimit /\ [][NextRoutes]_vars

NextLimitThreads ==
    \/ ClockTick
    \/ \E r \in RequestIds, c \in Clients : StartRequest(r, c)
    \/ \E r \in RequestIds : PurgeStep(r)
    \/ \E r \in RequestIds : AssignStep(r)
    \/ \E r \in RequestIds : CountStep(r)
    \/ \E r \in RequestIds : AppendStep(r)
SpecLimitThreads == InitLimit /\ [][NextLimitThreads]_vars

(***************************************************************************)
(* Claims about the token codec (SpecJwt).                                 *)
(***************************************************************************)
ExpectedSignature(tok) == hmac_new(JWT_SECRET, SignedMessage(tok[1], tok[2]))
ExpiresAt(i) == i.iat + JWT_EXPIRATION_HOURS

\* C1: verify_jwt_token rejects every three-part token whose signature part
\* is not the HMAC-SHA256 of its header + "." + payload under the server
\* secret (a changed signature byte, a replaced payload), whatever the
\* decoded payload says.
C1_BadSignatureRejected ==
    (vr.op = "verify" /\ Len(vr.token) = 3 /\ vr.token[3] # ExpectedSignature(vr.token))
        => vr.result = NoneVal

\* C2: verifying the token create_jwt_token(u, r) returned, at the time of
\* issuance, gives the identity with user = u, roles = r, authenticated.
C2_RoundTrip ==
    \A i \in issued :
        (vr.op = "verify" /\ vr.token = i.token /\ vr.at = i.iat)
            => vr.result = Identity(i.user, i.roles)

\* C3: an issued token fails verification at every time after
\* expires_at = issue time + JWT_EXPIRATION_HOURS, whatever was done since
\* (logins, key issuance, other verifications).
C3_ExpiredRejected ==
    \A i \in issued :
        /\ now > ExpiresAt(i) => verify_jwt_token(i.token, now) = NoneVal
        /\ (vr.op = "verify" /\ vr.token = i.token /\ vr.at > ExpiresAt(i))
              => vr.result = NoneVal
C3_Witness ==
    \E i \in issued :
        /\ vr.op = "verify" /\ vr.token = i.token /\ vr.at > ExpiresAt(i)
        /\ vr.result = NoneVal
        /\ Cardinality(issued) > 1 /\ API_KEYS # <<>>

(***************************************************************************)
(* Claims about the guard (Spec).                                          *)
(***************************************************************************)
Range(q) == {q[i] : i \in DOMAIN q}
Shares(required, held) == Range(required) \cap Range(held) # {}
Guarded == resp.op = "guard"
JwtOnly == Guarded /\ resp.policy.jwt_required /\ ~resp.policy.api_key_required
AdminOnly == Policy(FALSE, TRUE, <<"admin">>)

\* C4: on a route guarded by require_auth(jwt_required=True, roles=R), R not
\* empty, a request with a valid bearer token reaches the handler exactly
\* when the token's roles share a role with R, and gets 403 otherwise; the
\* token of a login as admin is admitted to the admin-only route, that of a
\* login as user gets 403.
C4_RoleGate ==
    \A i \in issued :
        (/\ JwtOnly /\ resp.policy.roles # <<>>
         /\ resp.auth_header = Bearer(i.token) /\ resp.at <= ExpiresAt(i))
        => /\ resp.handler <=> Shares(resp.policy.roles, i.roles)
           /\ ~resp.handler => resp.status = 403
           /\ (resp.policy = AdminOnly /\ i.user = "admin") => resp.status = 200
           /\ (resp.policy = AdminOnly /\ i.user = "user") => resp.status = 403
C4_Witness ==
    /\ resp.policy = AdminOnly /\ resp.status = 403
    /\ \E i \in issued : i.user = "user" /\ resp.auth_header = Bearer(i.token)
    /\ \E i \in issued : i.user = "admin"

\* C5: with jwt_required set and no identity obtained from an API key, a
\* request whose Authorization header is absent or does not start with
\* "Bearer ", or whose token fails verification, gets 401 and the handler is
\* not called.
C5_NoTokenIs401 ==
    (/\ Guarded /\ resp.policy.jwt_required
     /\ ~resp.key_info.authenticated
     /\ \/ resp.auth_header.text # BearerPrefix
        \/ ~verify_jwt_token(resp.auth_header.token, resp.at).authenticated)
    => resp.status = 401 /\ ~resp.handler
\* C6: with api_key_required set, a missing X-API-Key header or a key that
\* validate_api_key turns down gets 401 at once: the bearer token is not
\* examined, even a valid one, and the handler is not called.
C6_BadKeyIs401 ==
    (/\ Guarded /\ resp.policy.api_key_required
     /\ resp.api_key = NoKey \/ ~resp.key_info.authenticated)
    => resp.status = 401 /\ ~resp.handler /\ ~resp.jwt_examined
\* C7 as stated: with api_key_required and jwt_required both set, a valid
\* API key admits the request whatever the Authorization header holds, and
\* the handler gets the key's user and roles.
C7_ValidKeyAdmits ==
    (/\ Guarded /\ resp.policy.api_key_required /\ resp.policy.jwt_required
     /\ resp.key_info.authenticated)
    => resp.handler /\ resp.g = resp.key_info /\ ~resp.jwt_examined

\* C7 as amended: with both set, a valid API key ends the authentication:
\* the Authorization header is not examined and no 401 is answered whatever
\* it holds; the request reaches the handler, with the key's user and
\* roles, unless the policy requires roles the key's identity has none of,
\* in which case the answer is 403.
C7_ValidKeyShortCircuits ==
    (/\ Guarded /\ resp.policy.api_key_required /\ resp.policy.jwt_required
     /\ resp.key_info.authenticated)
    => /\ ~resp.jwt_examined
       /\ resp.handler <=>
             (resp.policy.roles = <<>> \/ Shares(resp.policy.roles, resp.key_info.roles))
       /\ resp.handler => resp.status = 200 /\ resp.g = resp.key_info
       /\ ~resp.handler => resp.status = 403
C7_Witness ==
    /\ Guarded /\ resp.policy.api_key_required /\ resp.policy.jwt_required
    /\ resp.key_info.authenticated /\ resp.key_info.user = "user"
    /\ \E i \in issued :
          /\ i.user = "admin" /\ resp.auth_header = Bearer(i.token)
          /\ resp.at > ExpiresAt(i)
    /\ resp.handler /\ resp.g.user = "user"

\* C8: for every policy with required roles, whichever of api_key_required
\* and jwt_required are set (also neither), the handler is called only if
\* the identity obtained has one of the required roles.
C8_RolesAlwaysEnforced ==
    (Guarded /\ resp.policy.roles # <<>> /\ resp.handler)
        => Shares(resp.policy.roles, resp.g.roles)

(***************************************************************************)
(* Claims about the key registry (SpecKeys).                               *)
(***************************************************************************)
Revoked(k) == k \in DOMAIN table /\ ~table[k].is_active
PastExpiry(k, t) ==
    k \in DOMAIN table /\ table[k].expires_at # Sql.null /\ t > table[k].expires_at
Rejectable(k, t) == k \notin DOMAIN table \/ Revoked(k) \/ PastExpiry(k, t)

\* C9: once a key is revoked (is_active false in the store), every validate
\* of it fails and a request presenting it to an api-key-required route
\* gets 401, also when the key is still in this process's in-memory map.
C9_RevokedKeyRejected ==
    /\ (kr.op = "validate" /\ Revoked(kr.key)) => ~kr.result.authenticated
    /\ (resp.op = "guard" /\ Revoked(resp.api_key)) => resp.status = 401

\* C10: with a durable store configured, a key that is unknown to the store,
\* inactive in it or past its expires_at is turned down by validate_api_key
\* and by GET /api-key-test of the ASGI application, whatever the in-memory
\* map holds.
C10_StoreAuthoritative ==
    /\ (/\ db_pool /\ kr.op = "validate" /\ kr.key # NoKey
        /\ Rejectable(kr.key, kr.at))
       => ~kr.result.authenticated
    /\ (/\ app_db_pool /\ db_pool /\ resp.op = "asgi" /\ resp.api_key # NoKey
        /\ Rejectable(resp.api_key, resp.at))
       => ~resp.handler

(***************************************************************************)
(* Claims about the durable store's failures (SpecKeys).                   *)
(***************************************************************************)
\* the store fails: the pool hands out no connection, or the statement raises
StoreFailures == DbFaults \ {"ok"}

\* C11: when the lookup of a key in the durable store fails (no connection
\* from the pool, or the query raises), validate_api_key returns "invalid"
\* without raising and the guard answers 401.
C11_StoreFailureIsInvalid ==
    /\ (kr.op = "validate" /\ kr.lookup \in StoreFailures)
          => ~kr.raised /\ kr.result = NoneVal
    /\ (resp.op = "guard" /\ resp.lookup \in StoreFailures)
          => ~resp.key_raised /\ resp.status = 401

\* the ways recording last_used_at can fail
UpdateFailures == {"getconn_none", "getconn_raises", "execute_raises", "commit_raises"}
\* the key of the last validate call is valid in the durable store, and the
\* call had to ask the store
ValidInStore(k) ==
    /\ k \notin DOMAIN API_KEYS
    /\ k \in DOMAIN table
    /\ table[k].is_active
    /\ table[k].expires_at = Sql.null

\* C12: a key that is valid in the durable store is accepted with its user
\* and roles even when recording last_used_at fails (no connection from the
\* pool, or the UPDATE or its commit raises); the call never raises.
C12_UsageUpdateBestEffort ==
    (/\ kr.op = "validate"
     /\ ValidInStore(kr.key)
     /\ kr.lookup = "ok"
     /\ kr.update \in UpdateFailures
     /\ checked_out < maxconn)
       => ~kr.raised /\ kr.result = Identity(table[kr.key].user, table[kr.key].roles)

\* C13: store, get and update put back every connection they took from the
\* pool on every exit path (success, query failure, commit failure, rollback
\* failure): after any sequence of operations no connection is checked out,
\* so the pool is never exhausted.
C13_NoConnectionLeak == checked_out = 0

(***************************************************************************)
(* Claims about the rate limiter (SpecLimit, SpecProtected,                *)
(* SpecLimitThreads).                                                      *)
(***************************************************************************)
Admitted(i) == served[i].status = 200
Denied(i) == served[i].status = 429
SameKey(i, j) == served[i].key = served[j].key
\* the requests of i's key admitted before i, at times inside the window
\* that trails i: later than i's time less window_seconds
PriorAdmitted(i) ==
    {j \in 1..(i - 1) :
        SameKey(i, j) /\ Admitted(j) /\ served[j].ts > served[i].ts - window_seconds}
\* the requests of a key admitted at times in [from, from + window_seconds)
AdmittedIn(key, from) ==
    {i \in DOMAIN served :
        /\ served[i].key = key /\ Admitted(i)
        /\ from <= served[i].ts /\ served[i].ts < from + window_seconds}
\* the times of the admitted requests of a key that are later than a time
AdmittedTimesSince(key, since) ==
    LET Counts(e) == e.key = key /\ e.status = 200 /\ e.ts > since
        log == SelectSeq(served, Counts)
    IN [n \in 1..Len(log) |-> log[n].ts]
LastTime(key) ==
    LET own == {i \in DOMAIN served : served[i].key = key}
    IN served[CHOOSE i \in own : \A j \in own : j <= i].ts

\* C14: requests of one route that come one after the other: a request is
\* admitted exactly when fewer than max_requests earlier admitted requests
\* of its key lie inside its trailing window, and is answered 429 otherwise;
\* no window_seconds-long interval holds more than max_requests admitted
\* requests of a key; what is recorded for a key is the admitted requests
\* inside the trailing window of its last request, so a denied request is
\* not recorded.
C14_SlidingWindow ==
    /\ \A i \in DOMAIN served :
          /\ Admitted(i) <=> Cardinality(PriorAdmitted(i)) < max_requests
          /\ Admitted(i) \/ Denied(i)
    /\ \A key \in Clients, from \in 0..MaxClock :
          Cardinality(AdmittedIn(key, from)) <= max_requests
    /\ \A key \in DOMAIN rate_limit_storage :
          rate_limit_storage[key]
            = AdmittedTimesSince(key, LastTime(key) - window_seconds)

\* a key was denied with max_requests admitted requests in the window, not
\* all of the same instant, and a request was admitted after an earlier
\* admitted one had left its window
C14_Witness ==
    /\ \E i \in DOMAIN served : \E j \in PriorAdmitted(i) :
          Denied(i) /\ served[j].ts < served[i].ts
    /\ \E i \in DOMAIN served : \E j \in 1..(i - 1) :
          /\ SameKey(i, j) /\ Admitted(i) /\ Admitted(j)
          /\ served[j].ts <= served[i].ts - window_seconds

\* the requests of i's key admitted between request i and request k
AdmittedBetween(i, k) == {j \in (i + 1)..(k - 1) : SameKey(i, j) /\ Admitted(j)}
\* request k comes from i's key when the retry_after of i's answer has passed
RetriesAfter(i, k) ==
    i < k /\ SameKey(i, k) /\ served[k].ts >= served[i].ts + served[i].retry_after

\* C15: a denial carries retry_after = window_seconds; a request that finds
\* all admitted requests of its key at least window_seconds old is admitted;
\* and a request that retries when retry_after has passed is denied only
\* when max_requests requests of the key were admitted after the denial.
C15_RecoversAfterWindow ==
    \A k \in DOMAIN served :
       /\ Denied(k) => served[k].retry_after = window_seconds
       /\ (\A j \in 1..(k - 1) :
              SameKey(j, k) /\ Admitted(j) => served[j].ts <= served[k].ts - window_seconds)
            => Admitted(k)
       /\ \A i \in 1..(k - 1) :
             Denied(i) /\ RetriesAfter(i, k) /\ Denied(k)
               => Cardinality(AdmittedBetween(i, k)) >= max_requests

\* max_requests admitted, the next denied, and the retry that comes when
\* retry_after has passed since the denial admitted
C15_Witness ==
    \E i \in DOMAIN served, k \in DOMAIN served :
       /\ Denied(i) /\ Cardinality(PriorAdmitted(i)) = max_requests
       /\ RetriesAfter(i, k) /\ served[k].ts = served[i].ts + window_seconds
       /\ Admitted(k)

\* the requests of i's key that came before i inside its trailing window and
\* were not turned away by the limiter, whatever the guard answered
PriorCounted(i) ==
    {j \in 1..(i - 1) :
        SameKey(i, j) /\ ~Denied(j) /\ served[j].ts > served[i].ts - window_seconds}

\* C16: on /protected the rate limit is checked for every request before the
\* credentials are: requests answered 401 or 403 count against the key's
\* window, and a request that finds max_requests counted requests in its
\* window is answered 429.
C16_LimiterRunsFirst ==
    \A i \in DOMAIN served :
       Cardinality(PriorCounted(i)) >= max_requests => Denied(i)

\* the times recorded for a key
RecordedTimes(key) ==
    LET times == StoredTimes(rate_limit_storage, key)
    IN {times[n] : n \in DOMAIN times}

\* C17: requests of one key handled by threads at the same time: purge,
\* count and append behave as one step, so no window_seconds-long interval
\* holds more than max_requests admitted requests of the key, and the time of
\* every admitted request stays recorded until it has left the window.
C17_AtomicUnderThreads ==
    /\ \A key \in Clients, from \in 0..MaxClock :
          Cardinality(AdmittedIn(key, from)) <= max_requests
    /\ \A i \in DOMAIN served :
          Admitted(i) /\ served[i].ts > clock - window_seconds
            => served[i].ts \in RecordedTimes(served[i].key)

(***************************************************************************)
(* Claims about user accounts and login (SpecLogin).                       *)
(***************************************************************************)
\* the pairs _init_demo_users registered
RegisteredPair(username, password) ==
    username \in Users /\ password = PasswordHashes[username].password

\* C18: authenticate_user returns the username with exactly the registered
\* roles when the user exists and the password is the one whose hash is
\* stored; for every other pair it returns the one "no match" value; it
\* never raises.
C18_AuthenticateExact ==
    lr.op = "authenticate" =>
       /\ ~lr.raised
       /\ IF RegisteredPair(lr.body.username, lr.body.password)
          THEN lr.status = 200 /\ lr.user = lr.body.username
               /\ lr.roles = DEMO_USERS[lr.body.username]
          ELSE lr.status = 401 /\ lr.user = NoUser /\ lr.roles = <<>>

\* the lifetime written into a token, exp less iat, in seconds
TokenTtlSeconds(token) ==
    LET payload == json_loads(b64decode(token[2]).bytes).d
    IN (ExpOf(payload[S("exp")]).t - ExpOf(payload[S("iat")]).t) * 3600

\* C19: a login answered 200 names the user of the body and the roles
\* registered for it; the token of the response verifies, and the API key of
\* the response validates, to that user with the roles of the response
\* (whatever the durable store does); expires_in is the lifetime of the
\* token in seconds, and the token verifies up to that time and not after.
C19_LoginResolves ==
    (lr.op = "login" /\ lr.status = 200) =>
       /\ lr.user = lr.body.username
       /\ lr.roles = DEMO_USERS[lr.user]
       /\ verify_jwt_token(lr.token, now) = Identity(lr.user, lr.roles)
       /\ \A fl \in PoolFaults, fu \in PoolFaults :
             LET k == validate_api_key(lr.api_key, fl, fu, now)
             IN ~k.raised /\ k.val = Identity(lr.user, lr.roles)
       /\ lr.expires_in = TokenTtlSeconds(lr.token)
       /\ lr.expires_in = JWT_EXPIRATION_HOURS * 3600
       /\ verify_jwt_token(lr.token, lr.at + JWT_EXPIRATION_HOURS) = Identity(lr.user, lr.roles)
       /\ verify_jwt_token(lr.token, lr.at + JWT_EXPIRATION_HOURS + 1) = NoneVal

\* admin has logged in through the handler that asks authenticate_user, and
\* the key was written to the durable store
C19_Witness ==
    /\ lr.op = "login" /\ lr.status = 200 /\ lr.variant = "users"
    /\ lr.user = "admin" /\ lr.api_key \in DOMAIN table

\* the body of the last login holds a registered pair
RegisteredBody(body) ==
    body.kind = "object" /\ RegisteredPair(Get(body.username), Get(body.password))

\* C20: a login whose body holds no registered username/password pair
\* (fields missing or empty included) is answered 401 "Invalid credentials"
\* with no token and no API key, and leaves the in-memory map and the
\* durable store as they were.
C20_BadLoginIs401 ==
    (lr.op = "login" /\ ~RegisteredBody(lr.body)) =>
       /\ lr.status = 401 /\ lr.message = "Invalid credentials"
       /\ lr.token = NoToken /\ lr.api_key = NoKey
       /\ API_KEYS = lr.mem_before /\ table = lr.table_before

(***************************************************************************)
(* Claims about the key listing (SpecList).                                *)
(***************************************************************************)
\* the previews a listing shows
Previews(entries) == {entries[n].key_preview : n \in DOMAIN entries}

\* C21: the admin key listing has one entry for every issued key, those of
\* the in-memory map and those of the durable store, and every entry shows
\* the first 8 characters of its key and an ellipsis, never the key.
C21_ListsEveryKeyByPreview ==
    (resp.op = "list" /\ resp.status \notin {401, 403}) =>
       /\ resp.status = 200
       /\ Len(resp.api_keys) = Cardinality(Stored)
       /\ Previews(resp.api_keys) = {SubSeq(KeyText(k), 1, 8) \o <<Dot, Dot, Dot>> : k \in Stored}
       /\ \A k \in Stored : KeyText(k) \notin Previews(resp.api_keys)

(***************************************************************************)
(* Claims about registration (SpecRegister).                               *)
(***************************************************************************)
\* a step leaves the user of every key that stays in a map as it was
KeepsUsers(before, after) ==
    \A k \in DOMAIN before \cap DOMAIN after : after[k].user = before[k].user

\* C22: through any sequence of register_api_key calls, one whose generated
\* string was already issued included, the user bound to a key string never
\* changes, in the in-memory map or in the durable store.
C22_KeyNeverRebound ==
    [][KeepsUsers(API_KEYS, API_KEYS') /\ KeepsUsers(table, table')]_vars

\* C23: with a durable store configured, once register_api_key has returned
\* a key the store holds an active record for it whose user and roles are
\* those of the in-memory record; a key the store already holds is no error;
\* register_api_key never raises.
C23_StoreMirrorsMemory ==
    (kr.op = "register" /\ db_pool) =>
       /\ ~kr.raised
       /\ kr.key \in DOMAIN table
       /\ table[kr.key].is_active
       /\ table[kr.key].user = API_KEYS[kr.key].user
       /\ table[kr.key].roles = API_KEYS[kr.key].roles

(***************************************************************************)
(* Claims about bearer tokens of any shape (SpecTokens).                   *)
(***************************************************************************)
\* the token has three parts and its second part decodes to a JSON object
Decodable(token) ==
    /\ Len(token) = 3
    /\ b64decode(token[2]).ok
    /\ json_loads(b64decode(token[2]).bytes).ok

\* C24: whatever bearer token a client sends, a guarded route ends in the
\* handler, in 401 or in 403, never in an unhandled fault; a token that has
\* not exactly three parts or whose payload cannot be decoded gets 401.
C24_TokenFaultsRecovered ==
    resp.op = "guard" =>
       /\ resp.status \in {200, 401, 403}
       /\ resp.handler <=> resp.status = 200
       /\ ~Decodable(resp.auth_header.token) => resp.status = 401

(***************************************************************************)
(* Claims about /protected in the variants of the application              *)
(* (SpecVariants).                                                         *)
(***************************************************************************)
\* the request carries no bearer token that verifies
Unauthenticated ==
    \/ resp.auth_header.text # BearerPrefix
    \/ ~verify_jwt_token(resp.auth_header.token, resp.at).authenticated

\* C25: in the application and in the blueprint, a request to /protected
\* that carries no valid bearer token is answered 401 and the view function
\* is not entered.
C25_ProtectedIsGuarded ==
    (resp.op \in RouteVariants /\ Unauthenticated)
       => resp.status = 401 /\ ~resp.handler

\* the first of two requests ran the view function and was answered 200, the
\* second asks for the same path and query before the first one's entry
\* expires, and Redis answered both
Undisturbed(i) == redis_client /\ answered[i].faults = CacheOk
Repeats(i, j, handler) ==
    /\ i < j
    /\ answered[i].handler = handler /\ answered[j].handler = handler
    /\ answered[i].variant = answered[j].variant
    /\ answered[i].args = answered[j].args
    /\ answered[i].status = 200 /\ answered[i].calls = 1
    /\ answered[j].at - answered[i].at < Ttl(handler)
    /\ Undisturbed(i) /\ Undisturbed(j)
FromCache(i, j) ==
    /\ answered[j].hit
    /\ answered[j].calls = 0
    /\ answered[j].status = 200
    /\ answered[j].body = answered[i].body

\* C26: with Redis available, a second GET / with the same path and query
\* within the TTL of a first successful GET / is served from the cache: it
\* carries the first answer's body (same timestamp) and hello is not executed
\* again.
C26_SecondServedFromCache ==
    \A i, j \in DOMAIN answered : Repeats(i, j, "hello") => FromCache(i, j)

\* C29: every connection that /ready, /db/status and /db/query take from the
\* pool is put back on every exit path, also when the statement or the
\* fetch raises: after any sequence of such requests no connection is out.
C29_ConnectionsReturned == pool_out = 0

\* C30: cache_response executes the wrapped view function at most once per
\* request: not at all on a cache hit, once on a miss, and not a second time
\* when the cache read, the cache write or the view function raises.
C30_HandlerAtMostOnce ==
    \A i \in DOMAIN answered :
        /\ answered[i].calls <= 1
        /\ answered[i].hit <=> answered[i].calls = 0

\* C27: a request is admitted to an admin-only handler only if its bearer
\* token was returned by a successful login of a user whose registered roles
\* include "admin"; no client can construct an admitted token itself.
LoginOfAdmin(i) == i.user \in Users /\ "admin" \in Range(DEMO_USERS[i.user]) /\ i.roles = DEMO_USERS[i.user]
C27_AdminNeedsAdminLogin ==
    (Guarded /\ resp.policy = AdminOnly /\ resp.handler)
        => \E i \in issued : LoginOfAdmin(i) /\ resp.auth_header = Bearer(i.token)

\* the requests of i's key to i's route admitted before i inside i's window
RouteMax(route) == IF route = "hello" THEN HelloMax ELSE max_requests
OwnAdmitted(i) ==
    {j \in PriorAdmitted(i) : served[j].route = served[i].route}

\* C28: the admission bound of a rate-limited route does not depend on the
\* client's traffic to other rate-limited routes: a request that the limiter
\* of its route decides on is admitted exactly when fewer than that route's
\* max_requests requests of the client to that route were admitted in the
\* route's window.
C28_RoutesIndependent ==
    \A i \in DOMAIN served :
        (Admitted(i) \/ Denied(i))
            => (Admitted(i) <=> Cardinality(OwnAdmitted(i)) < RouteMax(served[i].route))

=============================================================================
